---- MODULE Spec2Model ----
(***************************************************************************)
(* Model of the lunar-base core of static/js/main.js: the placement        *)
(* validator (LunarObject.validatePlacement) and the object/connection     *)
(* graph kept by LunarBaseManager.                                         *)
(*                                                                         *)
(* A JS Map is a sequence of [key, value] entries in insertion order with  *)
(* unique keys; a JS Set of ids is a set, and Array.from / new Set are the *)
(* conversions between a set and an array.  JS objects are records; a      *)
(* property that the object does not have is a field that the record does  *)
(* not have.  Strings built from templates are sequences of tokens.        *)
(***************************************************************************)
EXTENDS Integers, Sequences, FiniteSets, TLC

\* ------------------------------------------------------------------ bounds
MaxObjects == 3
MaxImportObjects == 2
MaxExisting == 2

\* the pool crypto.randomUUID() and imported documents draw ids from
Ids == {"a", "b", "c"}

\* -------------------------------------------------------- static tables
OBJECT_TYPES ==
    [RESIDENTIAL |-> "residential", SPACEPORT |-> "spaceport",
     COMMUNICATION |-> "communication", SOLAR |-> "solar", MINING |-> "mining"]

PLACEMENT_CRITERIA ==
    [residential |-> [minDistance |-> 1000, maxSlope |-> 5,
                      radiationProtection |-> TRUE, nearCommunication |-> TRUE],
     spaceport   |-> [minDistance |-> 5000, maxSlope |-> 2,
                      clearArea |-> TRUE, nearCommunication |-> TRUE]]

CommunicationRadius == 2000
ClearAreaRadius == 100

\* ------------------------------------------------------------ JS values
null == [kind |-> "null"]

undefined == [kind |-> "undefined"]

\* the object literal `{ }` that exportBase writes for a set terrain
TerrainSummary == [kind |-> "object"]

\* a terrain collaborator: an object whose getSlope(x, y) reads slopeAt
TerrainObject(slopeAt) == [kind |-> "object", getSlope |-> slopeAt]

Truthy(v) == v # null /\ v # undefined

Point(x, y) == [x |-> x, y |-> y]

Range(s) == {s[i] : i \in 1..Len(s)}

\* Array.from(set): the elements of the set, each once, as an array
RECURSIVE ArrayFrom(_)
ArrayFrom(set) ==
    IF set = {} THEN <<>>
    ELSE LET m == CHOOSE e \in set : TRUE
         IN  <<m>> \o ArrayFrom(set \ {m})

\* new Set(array): duplicates collapse
NewSet(array) == Range(array)

\* ----------------------------------------------------------------- Map
MapKeys(m) == {m[i].key : i \in 1..Len(m)}

MapHas(m, k) == k \in MapKeys(m)

MapIndex(m, k) == CHOOSE i \in 1..Len(m) : m[i].key = k

MapGet(m, k) == m[MapIndex(m, k)].value

MapSet(m, k, v) ==
    IF MapHas(m, k) THEN [m EXCEPT ![MapIndex(m, k)].value = v]
    ELSE Append(m, [key |-> k, value |-> v])

MapDelete(m, k) == SelectSeq(m, LAMBDA e : e.key # k)

MapValues(m) == [i \in 1..Len(m) |-> m[i].value]

\* --------------------------------------------------------- LunarObject
NoResources == [power |-> 0, water |-> 0, oxygen |-> 0]

LunarObject(id, type, size, position) ==
    [id |-> id, type |-> type, size |-> size, position |-> position,
     connections |-> {}, resources |-> NoResources]

\* Math.sqrt.  Every position of the model lies on a line or on a 3-4-5
\* triangle, so every radicand is a perfect square and the root is exact.
RECURSIVE SqrtIter(_, _)
SqrtIter(n, x) ==
    LET y == (x + (n \div x)) \div 2
    IN  IF y >= x THEN x ELSE SqrtIter(n, y)

Sqrt(n) == IF n = 0 THEN 0 ELSE SqrtIter(n, n)

calculateDistance(point1, point2) ==
    LET dx == point2.x - point1.x
        dy == point2.y - point1.y
    IN  Sqrt(dx * dx + dy * dy)

\* obj.prop !== undefined / obj has the property
Has(obj, prop) == prop \in DOMAIN obj

\* Array.prototype.join over token strings
RECURSIVE Join(_, _)
Join(strings, separator) ==
    IF Len(strings) = 0 THEN <<>>
    ELSE IF Len(strings) = 1 THEN strings[1]
    ELSE strings[1] \o <<separator>> \o Join(Tail(strings), separator)

TypeError == [name |-> "TypeError", message |-> <<>>]

\* terrain.getSlope(...) throws on null and on an object without getSlope
CanGetSlope(terrain) == Truthy(terrain) /\ Has(terrain, "getSlope")

SlopeMessage(slope, maxSlope) ==
    <<"slope", ToString(slope), "exceeds", ToString(maxSlope)>>

DistanceMessage(type, distance, minDistance) ==
    <<"distance to", type, ToString(distance), "below", ToString(minDistance)>>

CommunicationMessage == <<"no communication within 2000">>

ClearAreaMessage == <<"not enough clear area">>

SlopeValidations(criteria, object, terrain) ==
    IF Has(criteria, "maxSlope")
    THEN LET slope == terrain.getSlope[Point(object.position.x, object.position.y)]
         IN  <<[valid |-> slope <= criteria.maxSlope,
                message |-> SlopeMessage(slope, criteria.maxSlope)]>>
    ELSE <<>>

\* mutant of DistanceValidations: only residential objects are measured
DistanceValidations_ResidentialOnly(criteria, object, existingObjects) ==
    IF Has(criteria, "minDistance")
    THEN LET residential ==
                SelectSeq(existingObjects,
                          LAMBDA o : o.type = OBJECT_TYPES.RESIDENTIAL)
         IN  [i \in 1..Len(residential) |->
                LET existingObject == residential[i]
                    distance == calculateDistance(object.position,
                                                  existingObject.position)
                IN  [valid |-> distance >= criteria.minDistance,
                     message |-> DistanceMessage(existingObject.type, distance,
                                                 criteria.minDistance)]]
    ELSE <<>>

DistanceValidations(criteria, object, existingObjects) ==
    IF Has(criteria, "minDistance")
    THEN [i \in 1..Len(existingObjects) |->
            LET existingObject == existingObjects[i]
                distance == calculateDistance(object.position, existingObject.position)
            IN  [valid |-> distance >= criteria.minDistance,
                 message |-> DistanceMessage(existingObject.type, distance,
                                             criteria.minDistance)]]
    ELSE <<>>

CommunicationValidations(criteria, object, existingObjects) ==
    IF Has(criteria, "nearCommunication") /\ criteria.nearCommunication
    THEN LET hasCommunication ==
                \E i \in 1..Len(existingObjects) :
                    /\ existingObjects[i].type = OBJECT_TYPES.COMMUNICATION
                    /\ calculateDistance(object.position, existingObjects[i].position)
                          <= CommunicationRadius
         IN  <<[valid |-> hasCommunication, message |-> CommunicationMessage]>>
    ELSE <<>>

ClearAreaValidations(criteria, object, existingObjects) ==
    IF Has(criteria, "clearArea") /\ criteria.clearArea
    THEN LET hasObstacles ==
                \E i \in 1..Len(existingObjects) :
                    calculateDistance(object.position, existingObjects[i].position)
                        <= ClearAreaRadius
         IN  <<[valid |-> ~hasObstacles, message |-> ClearAreaMessage]>>
    ELSE <<>>

\* mutant of validatePlacement: a type without criteria is held to the
\* criteria of a residential module
validatePlacement_DefaultCriteria(object, terrain, existingObjects) ==
    LET criteria == IF Has(PLACEMENT_CRITERIA, object.type)
                    THEN PLACEMENT_CRITERIA[object.type]
                    ELSE PLACEMENT_CRITERIA[OBJECT_TYPES.RESIDENTIAL] IN
    IF Has(criteria, "maxSlope") /\ ~CanGetSlope(terrain)
    THEN [threw |-> TRUE, error |-> TypeError]
    ELSE
      LET validations ==
              SlopeValidations(criteria, object, terrain)
              \o DistanceValidations(criteria, object, existingObjects)
              \o CommunicationValidations(criteria, object, existingObjects)
              \o ClearAreaValidations(criteria, object, existingObjects)
          failures == SelectSeq(validations, LAMBDA v : ~v.valid)
      IN  [threw |-> FALSE,
           valid |-> Len(failures) = 0,
           messages |-> [i \in 1..Len(failures) |-> failures[i].message]]

\* The result is [threw |-> TRUE, error] when the call throws, and otherwise
\* the returned object: { valid: true } or { valid, messages }.
validatePlacement(object, terrain, existingObjects) ==
    IF ~Has(PLACEMENT_CRITERIA, object.type)
    THEN [threw |-> FALSE, valid |-> TRUE]
    ELSE
      LET criteria == PLACEMENT_CRITERIA[object.type] IN
      IF Has(criteria, "maxSlope") /\ ~CanGetSlope(terrain)
      THEN [threw |-> TRUE, error |-> TypeError]
      ELSE
        LET validations ==
                SlopeValidations(criteria, object, terrain)
                \o DistanceValidations(criteria, object, existingObjects)
                \o CommunicationValidations(criteria, object, existingObjects)
                \o ClearAreaValidations(criteria, object, existingObjects)
            failures == SelectSeq(validations, LAMBDA v : ~v.valid)
        IN  [threw |-> FALSE,
             valid |-> Len(failures) = 0,
             messages |-> [i \in 1..Len(failures) |-> failures[i].message]]

\* mutant of addConnection: the reverse edge is forgotten
addConnection_OneWay(m, thisKey, objectKey) ==
    LET this == MapGet(m, thisKey)
        object == MapGet(m, objectKey)
    IN  MapSet(m, thisKey, [this EXCEPT !.connections = @ \cup {object.id}])

\* mutant of addConnection: an edge that exists is dropped instead of kept
addConnection_Toggles(m, thisKey, objectKey) ==
    LET this == MapGet(m, thisKey)
        object == MapGet(m, objectKey)
        Toggle(set, id) == IF id \in set THEN set \ {id} ELSE set \cup {id}
        m1 == MapSet(m, thisKey,
                     [this EXCEPT !.connections = Toggle(@, object.id)])
        object1 == MapGet(m1, objectKey)
    IN  MapSet(m1, objectKey,
               [object1 EXCEPT !.connections = Toggle(@, this.id)])

addConnection(m, thisKey, objectKey) ==
    LET this == MapGet(m, thisKey)
        object == MapGet(m, objectKey)
        m1 == MapSet(m, thisKey,
                     [this EXCEPT !.connections = @ \cup {object.id}])
        object1 == MapGet(m1, objectKey)
    IN  MapSet(m1, objectKey,
               [object1 EXCEPT !.connections = @ \cup {this.id}])

removeConnection(m, thisKey, objectKey) ==
    LET this == MapGet(m, thisKey)
        object == MapGet(m, objectKey)
        m1 == MapSet(m, thisKey,
                     [this EXCEPT !.connections = @ \ {object.id}])
        object1 == MapGet(m1, objectKey)
    IN  MapSet(m1, objectKey,
               [object1 EXCEPT !.connections = @ \ {this.id}])

updateResources(object, resources) ==
    [object EXCEPT !.resources =
        [k \in DOMAIN @ \cup DOMAIN resources |->
            IF k \in DOMAIN resources THEN resources[k] ELSE @[k]]]

getInfo(object) ==
    [id |-> object.id, type |-> object.type, size |-> object.size,
     position |-> object.position,
     connections |-> ArrayFrom(object.connections),
     resources |-> object.resources]

\* ------------------------------------------------------ LunarBaseManager
VARIABLES
    objects,    \* this.objects: Map id -> LunarObject
    terrain,    \* this.terrain
    result      \* the last call: its name, arguments and how it ended

vars == <<objects, terrain, result>>

\* value is the returned value in print ("true", "false", "undefined", or the
\* id of the returned object); for a throw it is the error's name, and
\* message its message
Return(op, args, value) ==
    [op |-> op, args |-> args, kind |-> "return", value |-> value, message |-> <<>>]

Throw(op, args, error) ==
    [op |-> op, args |-> args, kind |-> "throw", value |-> error.name,
     message |-> error.message]

\* ------------------------------------------------------ inputs of calls
Sizes == {1}

Positions == {Point(0, 0), Point(1500, 0)}

FlatSlopes == [p \in Positions |-> 1]

SteepSlopes == [p \in Positions |-> IF p = Point(0, 0) THEN 1 ELSE 6]

\* ids that some stored object carries or refers to
ReferencedIds(m) ==
    MapKeys(m) \cup UNION {m[i].value.connections : i \in 1..Len(m)}

\* crypto.randomUUID(): an id that nothing in the manager holds
FreshIds == Ids \ ReferencedIds(objects)

Init ==
    /\ objects = <<>>
    /\ terrain = null
    /\ result = Return("constructor", <<>>, "undefined")

SetTerrain(newTerrain) ==
    /\ terrain' = newTerrain
    /\ result' = Return("setTerrain", <<>>, "undefined")
    /\ UNCHANGED objects

AddObjectError(messages) == [name |-> "Error", message |-> Join(messages, "\n")]

\* mutant of AddObject: the candidate is stored before it is validated
AddObject_StoresBeforeValidating(id, type, size, position) ==
    LET object == LunarObject(id, type, size, position)
        validation == validatePlacement(object, terrain, MapValues(objects))
        args == <<type, size, position>>
    IN  /\ UNCHANGED terrain
        /\ IF validation.threw
           THEN /\ result' = Throw("addObject", args, validation.error)
                /\ UNCHANGED objects
           ELSE /\ objects' = MapSet(objects, object.id, object)
                /\ result' = IF validation.valid
                             THEN Return("addObject", args, object.id)
                             ELSE Throw("addObject", args,
                                        AddObjectError(validation.messages))

\* The candidate gets its id from crypto.randomUUID(); the model inserts
\* only while the id pool and MaxObjects allow it.
AddObject(id, type, size, position) ==
    LET object == LunarObject(id, type, size, position)
        validation == validatePlacement(object, terrain, MapValues(objects))
        args == <<type, size, position>>
    IN  IF validation.threw
        THEN /\ result' = Throw("addObject", args, validation.error)
             /\ UNCHANGED <<objects, terrain>>
        ELSE IF ~validation.valid
        THEN /\ result' = Throw("addObject", args,
                                AddObjectError(validation.messages))
             /\ UNCHANGED <<objects, terrain>>
        ELSE /\ id \in FreshIds
             /\ Len(objects) < MaxObjects
             /\ objects' = MapSet(objects, object.id, object)
             /\ result' = Return("addObject", args, object.id)
             /\ UNCHANGED terrain

RECURSIVE removeConnections(_, _, _)
removeConnections(m, objectId, connectedIds) ==
    IF Len(connectedIds) = 0 THEN m
    ELSE LET connectedId == Head(connectedIds)
             m1 == IF MapHas(m, connectedId)
                   THEN removeConnection(m, objectId, connectedId)
                   ELSE m
         IN  removeConnections(m1, objectId, Tail(connectedIds))

\* mutant of removeObject: the object is deleted with its connections
\* still recorded on the other side
removeObject_WithoutSevering(m, objectId) ==
    MapDelete(m, objectId)

removeObject(m, objectId) ==
    MapDelete(removeConnections(m, objectId,
                                ArrayFrom(MapGet(m, objectId).connections)),
              objectId)

\* mutant of RemoveObject: the early return for an unknown id is missing
RemoveObject_WithoutGuard(objectId) ==
    /\ UNCHANGED terrain
    /\ IF ~MapHas(objects, objectId)
       THEN /\ result' = Throw("removeObject", <<objectId>>, TypeError)
            /\ UNCHANGED objects
       ELSE /\ objects' = removeObject(objects, objectId)
            /\ result' = Return("removeObject", <<objectId>>, "true")

RemoveObject(objectId) ==
    /\ UNCHANGED terrain
    /\ IF ~MapHas(objects, objectId)
       THEN /\ result' = Return("removeObject", <<objectId>>, "false")
            /\ UNCHANGED objects
       ELSE /\ objects' = removeObject(objects, objectId)
            /\ result' = Return("removeObject", <<objectId>>, "true")

NotFoundError == [name |-> "Error", message |-> <<"One or both objects not found">>]

createConnection(m, object1Id, object2Id) ==
    addConnection(m, object1Id, object2Id)

\* mutant of CreateConnection: the guard tests "both missing"
CreateConnection_BothMissing(object1Id, object2Id) ==
    /\ UNCHANGED terrain
    /\ IF ~MapHas(objects, object1Id) /\ ~MapHas(objects, object2Id)
       THEN /\ result' = Throw("createConnection", <<object1Id, object2Id>>,
                               NotFoundError)
            /\ UNCHANGED objects
       ELSE IF ~MapHas(objects, object1Id) \/ ~MapHas(objects, object2Id)
       THEN /\ result' = Throw("createConnection", <<object1Id, object2Id>>,
                               TypeError)
            /\ UNCHANGED objects
       ELSE /\ objects' = createConnection(objects, object1Id, object2Id)
            /\ result' = Return("createConnection", <<object1Id, object2Id>>,
                                "undefined")

CreateConnection(object1Id, object2Id) ==
    /\ UNCHANGED terrain
    /\ IF ~MapHas(objects, object1Id) \/ ~MapHas(objects, object2Id)
       THEN /\ result' = Throw("createConnection", <<object1Id, object2Id>>,
                               NotFoundError)
            /\ UNCHANGED objects
       ELSE /\ objects' = createConnection(objects, object1Id, object2Id)
            /\ result' = Return("createConnection", <<object1Id, object2Id>>, "undefined")

UpdateResources(objectId, resources) ==
    /\ MapHas(objects, objectId)
    /\ objects' = MapSet(objects, objectId,
                         updateResources(MapGet(objects, objectId), resources))
    /\ result' = Return("updateResources", <<objectId>>, "undefined")
    /\ UNCHANGED terrain

exportBase(m, t) ==
    [objects |-> [i \in 1..Len(m) |-> getInfo(MapValues(m)[i])],
     terrain |-> IF Truthy(t) THEN TerrainSummary ELSE null]

\* mutant of importObject: the recorded connections are not restored
importObject_WithoutConnections(objData) ==
    [LunarObject(objData.id, objData.type, objData.size, objData.position)
        EXCEPT !.resources = objData.resources]

\* one entry of data.objects: the object is rebuilt under its recorded id
importObject(objData) ==
    [LunarObject(objData.id, objData.type, objData.size, objData.position)
        EXCEPT !.connections = NewSet(objData.connections),
               !.resources = objData.resources]

\* data.objects.forEach(...): stops at the first entry that throws
RECURSIVE importObjects(_, _)
importObjects(m, entries) ==
    IF Len(entries) = 0 THEN [objects |-> m, threw |-> FALSE]
    ELSE LET objData == Head(entries) IN
         IF ~Truthy(objData)
         THEN [objects |-> m, threw |-> TRUE]
         ELSE LET object == importObject(objData)
              IN  importObjects(MapSet(m, object.id, object), Tail(entries))

\* mutant of importBase: this.objects.clear() is left out
importBase_WithoutClear(data) ==
    LET newTerrain == IF Has(data, "terrain") THEN data.terrain ELSE undefined
    IN  IF ~Has(data, "objects")
        THEN [objects |-> objects, terrain |-> newTerrain, threw |-> TRUE]
        ELSE [terrain |-> newTerrain] @@ importObjects(objects, data.objects)

importBase(data) ==
    LET cleared == <<>>
        newTerrain == IF Has(data, "terrain") THEN data.terrain ELSE undefined
    IN  IF ~Has(data, "objects")
        THEN [objects |-> cleared, terrain |-> newTerrain, threw |-> TRUE]
        ELSE [terrain |-> newTerrain] @@ importObjects(cleared, data.objects)

ImportBaseCall(op, data) ==
    LET outcome == importBase(data)
    IN  /\ objects' = outcome.objects
        /\ terrain' = outcome.terrain
        /\ result' = IF outcome.threw THEN Throw(op, <<>>, TypeError)
                     ELSE Return(op, <<>>, "undefined")

\* importBase(data) on a document handed in by the caller
ImportBase(data) == ImportBaseCall("importBase", data)

\* importBase(exportBase())
ImportExported == ImportBaseCall("importExported", exportBase(objects, terrain))

\* ------------------------------------------------- imported documents
DocObject(id, type, size, connections, resources) ==
    [id |-> id, type |-> type, size |-> size, position |-> Point(1500, 0),
     connections |-> connections, resources |-> resources]

\* the order in which documents list the ids of the pool
IdOrder == <<"a", "b", "c">>

\* what an entry may record as its connections: nothing or one id
ConnectionArrays == {<<>>} \cup {<<id>> : id \in Ids}

\* data.objects of n entries: the first n ids of the pool, each with any
\* recorded connections, whether or not the other end exists or agrees
DocObjectLists(n) ==
    {[i \in 1..n |-> DocObject(IdOrder[i], OBJECT_TYPES.COMMUNICATION, 1,
                               connections[i], NoResources)] :
        connections \in [1..n -> ConnectionArrays]}

Docs ==
    {[terrain |-> null, objects |-> os] :
        os \in UNION {DocObjectLists(n) :
                        n \in {k \in 0..MaxImportObjects : k <= Len(IdOrder)}}}

\* --------------------------------------------------- the object graph
GraphTypes == {OBJECT_TYPES.COMMUNICATION}

Next ==
    \/ \E t \in {TerrainObject(FlatSlopes), null} : SetTerrain(t)
    \/ \E id \in Ids, type \in GraphTypes, size \in Sizes :
          AddObject(id, type, size, Point(0, 0))
    \/ \E id \in Ids : RemoveObject(id)
    \/ \E id1 \in Ids, id2 \in Ids : CreateConnection(id1, id2)
    \/ \E data \in Docs : ImportBase(data)

Spec == Init /\ [][Next]_vars

\* ------------------------------------- placement against the terrain
PlacementTypes == {OBJECT_TYPES.RESIDENTIAL, OBJECT_TYPES.SPACEPORT,
                   OBJECT_TYPES.COMMUNICATION}

Terrains == {TerrainObject(FlatSlopes), TerrainObject(SteepSlopes)}

ResourceUpdates == {[water |-> 2, oxygen |-> 3]}

\* one id that crypto.randomUUID() may return
NewId ==
    IF FreshIds = {} THEN CHOOSE id \in Ids : TRUE
    ELSE CHOOSE id \in FreshIds : TRUE

NextPlacement ==
    \/ \E t \in Terrains \cup {null} : SetTerrain(t)
    \/ \E type \in PlacementTypes, size \in Sizes, position \in Positions :
          AddObject(NewId, type, size, position)
    \/ \E id \in Ids : RemoveObject(id)
    \/ \E id \in Ids, resources \in ResourceUpdates : UpdateResources(id, resources)
    \/ ImportExported

SpecPlacement == Init /\ [][NextPlacement]_vars

\* ------------------------------------- export and import of a base
\* documents with a reference to a missing object, a one-sided connection,
\* a repeated connection id, and resources that are not the defaults
SampleDocs ==
    {[terrain |-> null,
      objects |-> <<DocObject("a", OBJECT_TYPES.SPACEPORT, 2, <<"b", "b">>,
                              [power |-> 7, water |-> 0, oxygen |-> 0]),
                    DocObject("b", OBJECT_TYPES.RESIDENTIAL, 1, <<>>, NoResources)>>],
     [terrain |-> TerrainSummary,
      objects |-> <<DocObject("c", OBJECT_TYPES.RESIDENTIAL, 1, <<"a">>,
                              NoResources)>>]}

NextRoundTrip ==
    \/ AddObject(NewId, OBJECT_TYPES.SOLAR, 1, Point(0, 0))
    \/ \E id \in Ids : RemoveObject(id)
    \/ \E id1 \in Ids, id2 \in Ids : CreateConnection(id1, id2)
    \/ \E id \in Ids, resources \in ResourceUpdates : UpdateResources(id, resources)
    \/ \E data \in SampleDocs : ImportBase(data)
    \/ ImportExported

SpecRoundTrip == Init /\ [][NextRoundTrip]_vars

\* ------------------------------------- documents handed to importBase
\* a document without an objects list
NoObjectsDoc == [terrain |-> null]

\* a document whose second entry is null
NullEntryDoc ==
    [terrain |-> TerrainSummary,
     objects |-> <<DocObject("a", OBJECT_TYPES.SOLAR, 1, <<>>, NoResources), null>>]

\* a residential module and a spaceport on the same spot, with no
\* communication tower: no criterion of either type is met
CrowdedDoc ==
    [terrain |-> null,
     objects |-> <<DocObject("a", OBJECT_TYPES.RESIDENTIAL, 1, <<"b">>,
                             [power |-> 4, water |-> 0, oxygen |-> 0]),
                   DocObject("b", OBJECT_TYPES.SPACEPORT, 2, <<"a">>, NoResources)>>]

\* a document that lists the id "a" twice
RepeatedIdDoc ==
    [terrain |-> null,
     objects |-> <<DocObject("a", OBJECT_TYPES.SOLAR, 1, <<>>, NoResources),
                   DocObject("a", OBJECT_TYPES.MINING, 2, <<>>,
                             [power |-> 0, water |-> 9, oxygen |-> 0])>>]

EmptyDoc == [terrain |-> null, objects |-> <<>>]

CallerDocs == {NoObjectsDoc, NullEntryDoc, CrowdedDoc, RepeatedIdDoc, EmptyDoc}

ImportTypes == {OBJECT_TYPES.SOLAR, OBJECT_TYPES.RESIDENTIAL}

NextImport ==
    \/ \E type \in ImportTypes : AddObject(NewId, type, 1, Point(0, 0))
    \/ \E id \in Ids : RemoveObject(id)
    \/ \E id1 \in Ids, id2 \in Ids : CreateConnection(id1, id2)
    \/ \E data \in CallerDocs : ImportBase(data)

SpecImport == Init /\ [][NextImport]_vars

\* ------------------------------------- the validator on its own
\* positions along the direction (3, 4), at 0, 100, 1000, 2000, 5000 and
\* 6000 metres from the origin: every distance between two of them is whole
SurveyPositions ==
    {Point(0, 0), Point(60, 80), Point(600, 800), Point(1200, 1600),
     Point(3000, 4000), Point(3600, 4800)}

\* getSlope answers 1 degree everywhere
GentleSlopes == [p \in SurveyPositions |-> 1]

\* getSlope answers 2, 5 and 6 degrees at the three nearest positions
RisingSlopes ==
    [p \in SurveyPositions |->
        IF p = Point(0, 0) THEN 2
        ELSE IF p = Point(60, 80) THEN 5
        ELSE IF p = Point(600, 800) THEN 6
        ELSE 1]

SurveyTerrains == {TerrainObject(GentleSlopes), TerrainObject(RisingSlopes), null}

ExistingTypes == {OBJECT_TYPES.RESIDENTIAL, OBJECT_TYPES.COMMUNICATION}

CandidateTypes == {OBJECT_TYPES.RESIDENTIAL, OBJECT_TYPES.SPACEPORT,
                   OBJECT_TYPES.SOLAR}

\* the existingObjects the validator is handed: up to MaxExisting objects
\* of any type at any position, stored under the first ids of the pool
ExistingMaps ==
    UNION {{[i \in 1..n |->
                [key |-> IdOrder[i],
                 value |-> LunarObject(IdOrder[i], types[i], 1, positions[i])]] :
              types \in [1..n -> ExistingTypes],
              positions \in [1..n -> SurveyPositions]} :
           n \in {k \in 0..MaxExisting : k <= Len(IdOrder)}}

InitValidator ==
    /\ objects \in ExistingMaps
    /\ terrain \in SurveyTerrains
    /\ result = Return("constructor", <<>>, "undefined")

\* LunarObject.validatePlacement(object, this.terrain, existing objects),
\* called on a candidate and nothing else
Validate(type, size, position) ==
    LET object == LunarObject(NewId, type, size, position)
        validation == validatePlacement(object, terrain, MapValues(objects))
        args == <<type, size, position>>
    IN  /\ result' =
               IF validation.threw
               THEN Throw("validatePlacement", args, validation.error)
               ELSE IF validation.valid
               THEN Return("validatePlacement", args, "true")
               ELSE [Return("validatePlacement", args, "false")
                        EXCEPT !.message = Join(validation.messages, "\n")]
        /\ UNCHANGED <<objects, terrain>>

NextValidator ==
    \/ \E type \in CandidateTypes, position \in SurveyPositions :
          Validate(type, 1, position)
    \/ \E type \in CandidateTypes \ {OBJECT_TYPES.SOLAR},
          position \in SurveyPositions :
          AddObject(NewId, type, 1, position)

SpecValidator == InitValidator /\ [][NextValidator]_vars

\* the candidate that the last call of validatePlacement or addObject was
\* given, and what the validator makes of it in this state
LastCandidate == LunarObject(NewId, result.args[1], result.args[2], result.args[3])

LastValidation == validatePlacement(LastCandidate, terrain, MapValues(objects))

\* ------------------------------------- a base built without importBase
NextBuild ==
    \/ \E t \in {TerrainObject(GentleSlopes), null} : SetTerrain(t)
    \/ AddObject(NewId, OBJECT_TYPES.COMMUNICATION, 1, Point(0, 0))
    \/ AddObject(NewId, OBJECT_TYPES.RESIDENTIAL, 1, Point(600, 800))
    \/ \E position \in SurveyPositions :
          AddObject(NewId, OBJECT_TYPES.SPACEPORT, 1, position)
    \/ \E id \in Ids : RemoveObject(id)
    \/ \E id1 \in Ids, id2 \in Ids : CreateConnection(id1, id2)

SpecBuild == Init /\ [][NextBuild]_vars

\* ------------------------------------- resources of stored objects
ResourceKinds == {"power", "water", "oxygen"}

\* what callers hand to updateResources: one kind, two kinds, all three,
\* and an amount below zero
ResourceInputs ==
    {[power |-> 5],
     [water |-> 2, oxygen |-> 3],
     [power |-> 0, water |-> 0, oxygen |-> 0],
     [power |-> 0 - 1]}

NextResources ==
    \/ AddObject(NewId, OBJECT_TYPES.SOLAR, 1, Point(0, 0))
    \/ \E id \in Ids : RemoveObject(id)
    \/ CreateConnection("a", "b")
    \/ \E id \in Ids, resources \in ResourceInputs : UpdateResources(id, resources)

SpecResources == Init /\ [][NextResources]_vars

\* ------------------------------------------------------------- claims
Stored(m) == Range(MapValues(m))

SameButConnections(before, after) ==
    /\ after.id = before.id
    /\ after.type = before.type
    /\ after.size = before.size
    /\ after.position = before.position
    /\ after.resources = before.resources

\* C1: every id in a stored object's connections is a key of objects.
C1_NoDanglingConnection ==
    \A i \in 1..Len(objects) : objects[i].value.connections \subseteq MapKeys(objects)

\* C2: the connection relation is symmetric: B.id is in A.connections
\* exactly when A.id is in B.connections.
C2_ConnectionsSymmetric ==
    \A i \in 1..Len(objects), j \in 1..Len(objects) :
        LET A == objects[i].value
            B == objects[j].value
        IN  (B.id \in A.connections) <=> (A.id \in B.connections)

\* C3: when the validator returns invalid for the candidate, addObject throws
\* the error that carries the validator's reasons in order, and objects and
\* terrain are what they were before the call.
C3_RejectedPlacementChangesNothing ==
    [][\A type \in PlacementTypes, size \in Sizes, position \in Positions :
        LET validation == validatePlacement(LunarObject(NewId, type, size, position),
                                            terrain, MapValues(objects))
        IN  (/\ result'.op = "addObject"
             /\ result'.args = <<type, size, position>>
             /\ ~validation.threw
             /\ ~validation.valid
             /\ AddObject(NewId, type, size, position))
            => /\ result'.kind = "throw"
               /\ result'.value = "Error"
               /\ result'.message = Join(validation.messages, "\n")
               /\ objects' = objects
               /\ terrain' = terrain]_vars

\* a rejection with two reasons or more, raised while objects are stored
C3_Witness ==
    /\ result.op = "addObject"
    /\ result.kind = "throw"
    /\ result.value = "Error"
    /\ \E i \in 1..Len(result.message) : result.message[i] = "\n"
    /\ Len(objects) >= 1
    /\ CanGetSlope(terrain)

\* C4: removeObject(id) of a present id returns true; afterwards id is no key
\* and no remaining object refers to it, and every remaining object keeps its
\* type, size, position, resources and its other connections.
C4_RemoveObjectSeversEveryReference ==
    [][\A id \in Ids :
        (/\ result'.op = "removeObject"
         /\ result'.args = <<id>>
         /\ MapHas(objects, id)
         /\ RemoveObject(id))
        => /\ result'.kind = "return"
           /\ result'.value = "true"
           /\ MapKeys(objects') = MapKeys(objects) \ {id}
           /\ \A k \in MapKeys(objects') :
                 LET before == MapGet(objects, k)
                     after == MapGet(objects', k)
                 IN  /\ id \notin after.connections
                     /\ SameButConnections(before, after)
                     /\ after.connections = before.connections \ {id}]_vars

\* C5: removeObject(id) of an absent id returns false, throws nothing and
\* leaves objects and terrain unchanged.
C5_RemoveAbsentIsNoOp ==
    [][\A id \in Ids :
        (/\ result'.op = "removeObject"
         /\ result'.args = <<id>>
         /\ ~MapHas(objects, id)
         /\ RemoveObject(id))
        => /\ result'.kind = "return"
           /\ result'.value = "false"
           /\ objects' = objects
           /\ terrain' = terrain]_vars

\* removeObject returned false for an id while other objects, one of them
\* with a connection, are stored
C5_Witness ==
    /\ result.op = "removeObject"
    /\ result.kind = "return"
    /\ result.value = "false"
    /\ ~MapHas(objects, result.args[1])
    /\ \E i \in 1..Len(objects) : objects[i].value.connections # {}

\* C6: createConnection(idA, idB) with both ids present succeeds; afterwards
\* A.connections contains idB and B.connections contains idA, A and B keep
\* the connections they had, and the keys, the terrain and every other
\* object are unchanged.
C6_CreateConnectionAddsOneEdge ==
    [][\A idA \in Ids, idB \in Ids :
        (/\ result'.op = "createConnection"
         /\ result'.args = <<idA, idB>>
         /\ MapHas(objects, idA)
         /\ MapHas(objects, idB)
         /\ CreateConnection(idA, idB))
        => /\ result'.kind = "return"
           /\ [i \in 1..Len(objects') |-> objects'[i].key]
                 = [i \in 1..Len(objects) |-> objects[i].key]
           /\ idB \in MapGet(objects', idA).connections
           /\ idA \in MapGet(objects', idB).connections
           /\ \A k \in {idA, idB} :
                 /\ MapGet(objects, k).connections
                       \subseteq MapGet(objects', k).connections
                 /\ SameButConnections(MapGet(objects, k), MapGet(objects', k))
           /\ \A k \in MapKeys(objects) \ {idA, idB} :
                 MapGet(objects', k) = MapGet(objects, k)
           /\ terrain' = terrain]_vars

\* a connection was made between two different objects beside a third one
\* that keeps a connection of its own
C6_Witness ==
    /\ result.op = "createConnection"
    /\ result.kind = "return"
    /\ result.args[1] # result.args[2]
    /\ result.args[2] \in MapGet(objects, result.args[1]).connections
    /\ result.args[1] \in MapGet(objects, result.args[2]).connections
    /\ \E k \in MapKeys(objects) \ {result.args[1], result.args[2]} :
          MapGet(objects, k).connections # {}

\* C7: createConnection(idA, idB) throws the not-found error when idA or idB
\* is absent, and no stored object changes.
C7_CreateConnectionNeedsBothEnds ==
    [][\A idA \in Ids, idB \in Ids :
        (/\ result'.op = "createConnection"
         /\ result'.args = <<idA, idB>>
         /\ ~MapHas(objects, idA) \/ ~MapHas(objects, idB)
         /\ CreateConnection(idA, idB))
        => /\ result'.kind = "throw"
           /\ result'.value = NotFoundError.name
           /\ result'.message = NotFoundError.message
           /\ objects' = objects]_vars

\* the call failed with exactly one of its two ends stored
C7_Witness ==
    /\ result.op = "createConnection"
    /\ result.kind = "throw"
    /\ MapHas(objects, result.args[1]) # MapHas(objects, result.args[2])

\* C8: createConnection is idempotent: after createConnection(A, B) a second
\* createConnection(A, B), or a createConnection(B, A), changes nothing.
C8_CreateConnectionIdempotent ==
    (result.op = "createConnection" /\ result.kind = "return")
    => /\ createConnection(objects, result.args[1], result.args[2]) = objects
       /\ createConnection(objects, result.args[2], result.args[1]) = objects

\* a connection between two different objects has just been made
C8_Witness ==
    /\ result.op = "createConnection"
    /\ result.kind = "return"
    /\ result.args[1] # result.args[2]
    /\ Len(objects) = MaxObjects

\* C9: importBase(exportBase()) leaves the same objects: no object lost,
\* added or altered in id, type, size, position, connections or resources.
C9_ObjectsRoundTrip ==
    [][(result'.op = "importExported" /\ ImportExported)
        => /\ MapKeys(objects') = MapKeys(objects)
           /\ Stored(objects') = Stored(objects)
           /\ \A k \in MapKeys(objects) : MapGet(objects', k) = MapGet(objects, k)]_vars

\* a base of several objects, with connections and with resources that are
\* not the defaults, has been exported and imported
C9_Witness ==
    /\ result.op = "importExported"
    /\ result.kind = "return"
    /\ Len(objects) >= 2
    /\ \E i \in 1..Len(objects) : Cardinality(objects[i].value.connections) >= 2
    /\ \E i \in 1..Len(objects) : objects[i].value.resources # NoResources
    /\ \E i \in 1..Len(objects) : objects[i].value.type # OBJECT_TYPES.SOLAR

\* C10: importBase(exportBase()) leaves the terrain as it was.
C10_TerrainRoundTrip ==
    [][(result'.op = "importExported" /\ ImportExported)
        => terrain' = terrain]_vars

\* C11: every mutating operation is all-or-nothing: whenever a call of
\* addObject, removeObject, createConnection or importBase ends in an error,
\* importBase on a document without an objects list or with a malformed entry
\* included, objects and terrain are exactly as they were before the call.
C11_FailedCallChangesNothing ==
    [][(/\ result'.op \in {"addObject", "removeObject", "createConnection",
                           "importBase"}
        /\ result'.kind = "throw")
       => /\ objects' = objects
          /\ terrain' = terrain]_vars

\* C12: for every type whose criteria set minDistance and every set of
\* existing objects, the validator rejects the candidate if some existing
\* object of any type lies strictly closer than minDistance, and its reasons
\* hold exactly one distance reason per too-close object, naming that
\* object's type and the measured distance; an object at minDistance or
\* farther contributes no distance reason.
C12_OneReasonPerTooCloseObject ==
    (/\ result.op = "validatePlacement"
     /\ Has(PLACEMENT_CRITERIA, result.args[1])
     /\ Has(PLACEMENT_CRITERIA[result.args[1]], "minDistance"))
    => LET minDistance == PLACEMENT_CRITERIA[result.args[1]].minDistance
           existing == MapValues(objects)
           DistanceTo(i) == calculateDistance(result.args[3], existing[i].position)
           tooClose == SelectSeq([i \in 1..Len(existing) |-> i],
                                 LAMBDA i : DistanceTo(i) < minDistance)
           expected == [k \in 1..Len(tooClose) |->
                          DistanceMessage(existing[tooClose[k]].type,
                                          DistanceTo(tooClose[k]), minDistance)]
           emitted == IF Has(LastValidation, "messages")
                      THEN SelectSeq(LastValidation.messages,
                                     LAMBDA m : m[1] = "distance to")
                      ELSE <<>>
       IN  /\ Len(tooClose) > 0 => /\ result.kind = "return"
                                   /\ result.value = "false"
           /\ emitted = expected

\* C13: for every type that has no entry in PLACEMENT_CRITERIA the validator
\* returns valid with no reasons, and addObject returns and inserts the
\* candidate, whatever the position, the existing objects and the terrain,
\* no terrain included.
C13_TypeWithoutCriteriaIsAccepted ==
    [][\A type \in PlacementTypes, size \in Sizes, position \in Positions :
        (/\ result'.op = "addObject"
         /\ result'.args = <<type, size, position>>
         /\ ~Has(PLACEMENT_CRITERIA, type)
         /\ AddObject(NewId, type, size, position))
        => LET object == LunarObject(NewId, type, size, position)
               validation == validatePlacement(object, terrain, MapValues(objects))
           IN  /\ ~validation.threw
               /\ validation.valid
               /\ ~Has(validation, "messages")
               /\ result'.kind = "return"
               /\ result'.value = object.id
               /\ ~MapHas(objects, object.id)
               /\ objects' = Append(objects, [key |-> object.id, value |-> object])
               /\ terrain' = terrain]_vars

\* a communication tower was added next to two stored objects while no
\* terrain was set
C13_Witness ==
    /\ result.op = "addObject"
    /\ result.kind = "return"
    /\ result.args[1] = OBJECT_TYPES.COMMUNICATION
    /\ terrain = null
    /\ Len(objects) = 3
    /\ \E i \in 1..Len(objects) : objects[i].value.type = OBJECT_TYPES.RESIDENTIAL

\* C14: a SPACEPORT candidate 6000 from an existing RESIDENTIAL object, with
\* an existing COMMUNICATION object within 2000 of the candidate and a slope
\* of 1 degree at its position, is accepted by the validator (valid, no
\* reasons), and addObject inserts it.
C14_SpaceportExampleAccepted ==
    [][\A position \in SurveyPositions, i \in {1, 2} :
        (/\ result'.op = "addObject"
         /\ result'.args = <<OBJECT_TYPES.SPACEPORT, 1, position>>
         /\ Len(objects) = 2
         /\ objects[i].value.type = OBJECT_TYPES.RESIDENTIAL
         /\ calculateDistance(position, objects[i].value.position) = 6000
         /\ objects[3 - i].value.type = OBJECT_TYPES.COMMUNICATION
         /\ calculateDistance(position, objects[3 - i].value.position)
               <= CommunicationRadius
         /\ CanGetSlope(terrain)
         /\ terrain.getSlope[position] = 1
         /\ AddObject(NewId, OBJECT_TYPES.SPACEPORT, 1, position))
        => LET object == LunarObject(NewId, OBJECT_TYPES.SPACEPORT, 1, position)
               validation == validatePlacement(object, terrain, MapValues(objects))
           IN  /\ ~validation.threw
               /\ validation.valid
               /\ Has(validation, "messages") => Len(validation.messages) = 0
               /\ result'.kind = "return"
               /\ MapHas(objects', object.id)
               /\ MapGet(objects', object.id) = object]_vars

\* C15: the slope check fails closed.  With no terrain set and a type whose
\* criteria set maxSlope, validation yields an invalid result that holds a
\* slope reason, so addObject ends as a placement rejection carrying the
\* reasons, never as an acceptance and never as another fault; with a terrain
\* set, the slope check fails exactly when getSlope(x, y) exceeds maxSlope.
C15_SlopeCheckFailsClosed ==
    [][\A type \in PlacementTypes, size \in Sizes, position \in Positions :
        (/\ result'.op = "addObject"
         /\ result'.args = <<type, size, position>>
         /\ Has(PLACEMENT_CRITERIA, type)
         /\ Has(PLACEMENT_CRITERIA[type], "maxSlope")
         /\ AddObject(NewId, type, size, position))
        => LET slopeReason == /\ result'.kind = "throw"
                              /\ result'.value = "Error"
                              /\ Len(result'.message) > 0
                              /\ result'.message[1] = "slope"
           IN  IF terrain = null
               THEN /\ slopeReason
                    /\ objects' = objects
               ELSE CanGetSlope(terrain)
                    => (slopeReason <=>
                          terrain.getSlope[position]
                              > PLACEMENT_CRITERIA[type].maxSlope)]_vars

\* C16: for every candidate of a type with criteria the validator returns a
\* result that is valid iff none of the configured checks fails (slope above
\* maxSlope; an existing object closer than minDistance; no COMMUNICATION
\* object within 2000 when nearCommunication is set; an existing object within
\* 100 when clearArea is set), and whose reasons are exactly the messages of
\* the failing checks in the order slope, one per too-close object in the
\* order of the existing objects, communication, clear area; a dimension that
\* is not configured contributes nothing.
C16_ReasonsAreTheFailingChecksInOrder ==
    (/\ result.op = "validatePlacement"
     /\ Has(PLACEMENT_CRITERIA, result.args[1]))
    => LET criteria == PLACEMENT_CRITERIA[result.args[1]]
           position == result.args[3]
           existing == MapValues(objects)
           indices == [i \in 1..Len(existing) |-> i]
           DistanceTo(i) == calculateDistance(position, existing[i].position)
           slopeReasons ==
               IF Has(criteria, "maxSlope") /\ CanGetSlope(terrain)
                  /\ terrain.getSlope[position] > criteria.maxSlope
               THEN <<SlopeMessage(terrain.getSlope[position], criteria.maxSlope)>>
               ELSE <<>>
           tooClose ==
               IF Has(criteria, "minDistance")
               THEN SelectSeq(indices, LAMBDA i : DistanceTo(i) < criteria.minDistance)
               ELSE <<>>
           distanceReasons ==
               [k \in 1..Len(tooClose) |->
                   DistanceMessage(existing[tooClose[k]].type,
                                   DistanceTo(tooClose[k]), criteria.minDistance)]
           communicationReasons ==
               IF /\ Has(criteria, "nearCommunication")
                  /\ criteria.nearCommunication
                  /\ \A i \in 1..Len(existing) :
                        \/ existing[i].type # OBJECT_TYPES.COMMUNICATION
                        \/ DistanceTo(i) > 2000
               THEN <<CommunicationMessage>>
               ELSE <<>>
           clearAreaReasons ==
               IF /\ Has(criteria, "clearArea")
                  /\ criteria.clearArea
                  /\ \E i \in 1..Len(existing) : DistanceTo(i) <= 100
               THEN <<ClearAreaMessage>>
               ELSE <<>>
           reasons == slopeReasons \o distanceReasons \o communicationReasons
                      \o clearAreaReasons
       IN  /\ result.kind = "return"
           /\ ~LastValidation.threw
           /\ CanGetSlope(terrain)
              => /\ LastValidation.valid <=> (Len(reasons) = 0)
                 /\ LastValidation.messages = reasons
                 /\ result.value = "true" <=> (Len(reasons) = 0)
                 /\ result.message = Join(reasons, "\n")

\* an entry of data.objects and a stored object agree on the id, the
\* connections as a set, and the resources
SameAsListed(object, objData) ==
    /\ object.id = objData.id
    /\ object.connections = Range(objData.connections)
    /\ object.resources = objData.resources

\* C17 as stated: importBase(data) never consults the validator: after it
\* returns, the stored objects are exactly the objects listed in data (same
\* ids, connection sets and resources) and nothing stored before remains,
\* even when the imported objects violate the criteria of their types.
C17_ImportStoresEveryListedObject ==
    [][\A data \in CallerDocs :
        (/\ result'.op = "importBase"
         /\ result'.kind = "return"
         /\ ImportBase(data))
        => /\ \A i \in 1..Len(data.objects) :
                \E object \in Stored(objects') :
                    SameAsListed(object, data.objects[i])
           /\ \A object \in Stored(objects') :
                \E i \in 1..Len(data.objects) :
                    SameAsListed(object, data.objects[i])]_vars

\* C17, amended: importBase(data) never consults the validator: after it
\* returns, the manager stores one object per id listed in data, rebuilt from
\* the last entry that carries the id (same id, type, size, position,
\* connection set and resources), and nothing else, so nothing stored before
\* remains, even when the imported objects violate the criteria of their
\* types.
C17_ImportStoresLastEntryPerId ==
    [][\A data \in CallerDocs :
        (/\ result'.op = "importBase"
         /\ result'.kind = "return"
         /\ ImportBase(data))
        => LET entries == data.objects
               LastWith(id) ==
                   entries[CHOOSE i \in 1..Len(entries) :
                              /\ entries[i].id = id
                              /\ \A j \in (i + 1)..Len(entries) : entries[j].id # id]
           IN  /\ MapKeys(objects') = {entries[i].id : i \in 1..Len(entries)}
               /\ Len(objects') = Cardinality(MapKeys(objects'))
               /\ \A id \in MapKeys(objects') :
                    LET object == MapGet(objects', id)
                        objData == LastWith(id)
                    IN  /\ SameAsListed(object, objData)
                        /\ object.type = objData.type
                        /\ object.size = objData.size
                        /\ object.position = objData.position]_vars

\* importBase returned and left a residential module and a spaceport on the
\* same spot, with no terrain and no communication tower
C17_Witness ==
    /\ result.op = "importBase"
    /\ result.kind = "return"
    /\ terrain = null
    /\ \E i, j \in 1..Len(objects) :
          /\ objects[i].value.type = OBJECT_TYPES.RESIDENTIAL
          /\ objects[j].value.type = OBJECT_TYPES.SPACEPORT
          /\ objects[i].value.position = objects[j].value.position
    /\ \A i \in 1..Len(objects) :
          objects[i].value.type # OBJECT_TYPES.COMMUNICATION

\* C18: no stored object ever lists itself as a connection: in every
\* reachable state A.id is not in A.connections for every stored object A,
\* also after createConnection(A, A) was called with a present id A.
C18_NoSelfConnection ==
    \A i \in 1..Len(objects) :
        objects[i].value.id \notin objects[i].value.connections

C19_ResourcesNonNegativeAndUpdatedByKind ==
    [][/\ \A i \in 1..Len(objects') : \A kind \in ResourceKinds :
            objects'[i].value.resources[kind] >= 0
       /\ \A id \in Ids, resources \in ResourceInputs :
            (/\ result'.op = "updateResources"
             /\ result'.args = <<id>>
             /\ UpdateResources(id, resources))
            => /\ Len(objects') = Len(objects)
               /\ \A i \in 1..Len(objects) :
                    IF objects[i].key # id
                    THEN objects'[i] = objects[i]
                    ELSE LET before == objects[i].value
                             after == objects'[i].value
                         IN  /\ objects'[i].key = id
                             /\ after.connections = before.connections
                             /\ [after EXCEPT !.resources = before.resources] = before
                             /\ \A kind \in ResourceKinds :
                                  after.resources[kind] =
                                      IF kind \in DOMAIN resources
                                      THEN resources[kind]
                                      ELSE before.resources[kind]]_vars

\* C21: in every state reached from an empty manager with addObject,
\* removeObject, createConnection and setTerrain alone (no importBase), the
\* connections form a well-formed undirected graph: every connection id is a
\* key of objects, B is in A.connections exactly when A is in B.connections,
\* and every key of the map is the id of the object stored under it.
C21_GraphWellFormedWithoutImport ==
    /\ \A i \in 1..Len(objects) :
          /\ objects[i].key = objects[i].value.id
          /\ \A id \in objects[i].value.connections :
                /\ MapHas(objects, id)
                /\ objects[i].value.id \in MapGet(objects, id).connections
    /\ \A i, j \in 1..Len(objects) :
          (i # j) => (objects[i].key # objects[j].key)

\* removeObject has just deleted an object, and two of the objects it left
\* behind are still connected to each other
C21_Witness ==
    /\ result.op = "removeObject"
    /\ result.value = "true"
    /\ ~MapHas(objects, result.args[1])
    /\ \E i, j \in 1..Len(objects) :
          /\ i # j
          /\ objects[j].key \in objects[i].value.connections

====
